---- MODULE Spec2Model ----
(***************************************************************************)
(* Model of src/src/main.rs: the `update` command of the Helm repository   *)
(* index updater.  An invocation reads the constants and parameters        *)
(* descriptors, runs update_yaml on the index file and writes the result   *)
(* back.  Several invocations may run against the same index path.         *)
(*                                                                         *)
(* YAML texts are modelled by their document tree, parsed Rust values by   *)
(* records with the Rust field names; Option<T> is a sequence of length    *)
(* at most one, Result<T, E> a record [ok, val, err].                      *)
(***************************************************************************)
EXTENDS Integers, Sequences, FiniteSets, TLC

\* Bounds of the model.
MaxRuns == 2        \* invocations started in one behaviour
MaxClock == 1       \* largest reading of the wall clock

Procs == {1, 2}

None == <<>>
Some(x) == <<x>>

Ok(v) == [ok |-> TRUE, val |-> v, err |-> ""]
Err(e) == [ok |-> FALSE, val |-> <<>>, err |-> e]

Min(a, b) == IF a <= b THEN a ELSE b

(***************************************************************************)
(* serde_yaml::Value, as far as the program looks into it.                 *)
(***************************************************************************)
VString(s) == [t |-> "str", v |-> s, items |-> <<>>]
VNumber(s) == [t |-> "num", v |-> s, items |-> <<>>]
VNull == [t |-> "null", v |-> "", items |-> <<>>]
VSequence(xs) == [t |-> "seq", v |-> "", items |-> xs]
VMapping(kvs) == [t |-> "map", v |-> "", items |-> kvs]
Absent == [t |-> "absent", v |-> "", items |-> <<>>]

KV(key, value) == [k |-> key, v |-> value]

(***************************************************************************)
(* Descriptor records.                                                     *)
(***************************************************************************)
Maintainer(e, n, u) == [email |-> e, name |-> n, url |-> u]

\* tests::create_test_constants
TestConstants ==
    [api_version |-> "v2", app_version |-> "1.0.0",
     description |-> "Test Chart", home |-> "https://example.com",
     icon |-> "https://example.com/icon.png",
     keywords |-> <<"test", "chart">>,
     maintainers |-> <<Maintainer("test@example.com", "Test Maintainer",
                                  "https://example.com")>>,
     name |-> "test-chart",
     sources |-> <<"https://github.com/test/chart">>,
     entry_type |-> "application"]

\* a second chart, every field different from TestConstants
OtherConstants ==
    [api_version |-> "v1", app_version |-> "2.0.0",
     description |-> "Other Chart", home |-> "https://other.example",
     icon |-> "https://other.example/icon.png",
     keywords |-> <<"other">>,
     maintainers |-> <<>>,
     name |-> "other-chart",
     sources |-> <<>>,
     entry_type |-> "library"]

\* tests::create_test_parameters
TestParameters ==
    [app_version |-> Some("1.0.1"), digest |-> "abc123",
     version |-> "0.1.0",
     urls |-> <<"https://example.com/test-chart-0.1.0.tgz">>]

\* a release without an appVersion override
PlainParameters ==
    [app_version |-> None, digest |-> "def456",
     version |-> "0.1.0",
     urls |-> <<"https://example.com/a.tgz", "https://example.com/b.tgz">>]

\* What the file at --constants / --parameters may hold.
ConstantsFiles ==
    {[kind |-> "ok", val |-> Some(TestConstants)],
     [kind |-> "ok", val |-> Some(OtherConstants)],
     [kind |-> "malformed", val |-> None],
     [kind |-> "missing", val |-> None]}

ParametersFiles ==
    {[kind |-> "ok", val |-> Some(TestParameters)],
     [kind |-> "ok", val |-> Some(PlainParameters)],
     [kind |-> "malformed", val |-> None],
     [kind |-> "missing", val |-> None]}

\* fs::read_to_string followed by serde_yaml::from_str on a descriptor
ReadDescriptor(f) ==
    IF f.kind = "missing" THEN Err("io")
    ELSE IF f.kind = "malformed" THEN Err("parse")
    ELSE Ok(f.val[1])

(***************************************************************************)
(* The index file.  kind "missing": no file at the path; "blank": empty or *)
(* whitespace only; "garbage": text that is no YAML mapping; "doc": a YAML *)
(* mapping with its apiVersion and entries values (Absent when the key is  *)
(* not there) and whether it has other top-level keys; "unreadable": the   *)
(* path exists and fs::read_to_string fails on it.                         *)
(***************************************************************************)
Doc(api, entries, extra) ==
    [kind |-> "doc", api |-> api, entries |-> entries, extra |-> extra]
MissingFile == [kind |-> "missing", api |-> Absent, entries |-> Absent, extra |-> FALSE]
BlankFile == [kind |-> "blank", api |-> Absent, entries |-> Absent, extra |-> FALSE]
GarbageFile == [kind |-> "garbage", api |-> Absent, entries |-> Absent, extra |-> FALSE]
UnreadableFile == [kind |-> "unreadable", api |-> Absent, entries |-> Absent, extra |-> FALSE]

\* the literal "apiVersion: v1\nentries: {}\n"
EmptyIndexText == Doc(VString("v1"), VMapping(<<>>), FALSE)

\* ChartYaml
ChartYaml(api_version, entries) == [api_version |-> api_version, entries |-> entries]

\* impl Default for ChartYaml
ChartYamlDefault == ChartYaml(Some("v1"), <<>>)

\* serde_yaml::from_str::<ChartYaml>
FromStrChartYaml(text) ==
    IF text.kind # "doc" THEN Err("parse")
    ELSE IF text.api.t \notin {"absent", "null", "str"} THEN Err("parse")
    ELSE IF text.entries.t # "map" THEN Err("parse")
    ELSE Ok(ChartYaml(IF text.api.t = "str" THEN Some(text.api.v) ELSE None,
                      text.entries.items))

\* serde_yaml::to_string(&ChartYaml)
ToStringChartYaml(data) ==
    Doc(IF data.api_version = None THEN VNull ELSE VString(data.api_version[1]),
        VMapping(data.entries), FALSE)

\* serde_yaml::to_value(&ChartEntry): the struct as a mapping with the
\* serialized (renamed) keys
ToValueChartEntry(e) ==
    [apiVersion |-> e.api_version, appVersion |-> e.app_version,
     created |-> e.created, description |-> e.description,
     digest |-> e.digest, home |-> e.home, icon |-> e.icon,
     keywords |-> e.keywords, maintainers |-> e.maintainers,
     name |-> e.name, sources |-> e.sources, type |-> e.entry_type,
     urls |-> e.urls, version |-> e.version]

\* mutant: the override is ignored
UnwrapOrElseDefault(opt, dflt) == dflt

\* Option::unwrap_or_else
UnwrapOrElse(opt, dflt) == IF opt = None THEN dflt ELSE opt[1]

\* mutant: digest and version taken from each other's field
NewEntrySwapped(constants, parameters, created) ==
    [api_version |-> constants.api_version,
     app_version |-> IF parameters.app_version = None THEN constants.app_version
                     ELSE parameters.app_version[1],
     created |-> created,
     description |-> constants.description,
     digest |-> parameters.version,
     home |-> constants.home,
     icon |-> constants.icon,
     keywords |-> constants.keywords,
     maintainers |-> constants.maintainers,
     name |-> constants.name,
     sources |-> constants.sources,
     entry_type |-> constants.entry_type,
     urls |-> parameters.urls,
     version |-> parameters.digest]

\* the ChartEntry literal of update_yaml
NewEntry(constants, parameters, created) ==
    [api_version |-> constants.api_version,
     app_version |-> UnwrapOrElse(parameters.app_version, constants.app_version),
     created |-> created,
     description |-> constants.description,
     digest |-> parameters.digest,
     home |-> constants.home,
     icon |-> constants.icon,
     keywords |-> constants.keywords,
     maintainers |-> constants.maintainers,
     name |-> constants.name,
     sources |-> constants.sources,
     entry_type |-> constants.entry_type,
     urls |-> parameters.urls,
     version |-> parameters.version]

\* position of a key in a Mapping (insertion ordered), 0 when absent
IndexOfKey(m, key) ==
    IF \E i \in 1..Len(m) : m[i].k = key
    THEN CHOOSE i \in 1..Len(m) : m[i].k = key
    ELSE 0

\* mutant: a new key goes to the front of the mapping
OrInsertFront(m, key, dflt) ==
    IF \E i \in 1..Len(m) : m[i].k = key THEN m ELSE <<KV(key, dflt)>> \o m

\* Mapping::entry(key).or_insert(default): the mapping afterwards
OrInsert(m, key, dflt) ==
    IF IndexOfKey(m, key) # 0 THEN m ELSE Append(m, KV(key, dflt))

\* mutant: the element goes to the front of the list
PushFront(vec, x) == <<x>> \o vec

\* Vec::push
Push(vec, x) == Append(vec, x)

\* mutant: a file that does not parse is taken for an empty index
LoadIndexLenient(f) ==
    IF f.kind = "missing" \/ f.kind = "blank" THEN Ok(ChartYaml(Some("v1"), <<>>))
    ELSE IF f.kind = "unreadable" THEN Err("io")
    ELSE IF FromStrChartYaml(f).ok THEN FromStrChartYaml(f)
    ELSE Ok(ChartYaml(Some("v1"), <<>>))

\* mutant: the existing file is never looked at
LoadIndexFresh(f) == Ok(ChartYaml(Some("v1"), <<>>))

\* the load step of update_yaml
LoadIndex(f) ==
    IF f.kind # "missing"
    THEN IF f.kind = "unreadable" THEN Err("io")
         ELSE FromStrChartYaml(IF f.kind = "blank" THEN EmptyIndexText ELSE f)
    ELSE Ok(ChartYaml(Some("v1"), <<>>))

\* mutant: a value that is no list is replaced by a list of the new entry
AppendEntryCoerce(data, constants, new_entry) ==
    LET entries_key == VString(constants.name)
        m == OrInsert(data.entries, entries_key, VSequence(<<>>))
        i == IndexOfKey(m, entries_key)
        old == IF m[i].v.t = "seq" THEN m[i].v.items ELSE <<>>
    IN Ok(ChartYaml(data.api_version,
                    [m EXCEPT ![i].v = VSequence(Append(old, ToValueChartEntry(new_entry)))]))

\* the append step of update_yaml on the loaded data
AppendEntry(data, constants, new_entry) ==
    LET entries_key == VString(constants.name)
        m == OrInsert(data.entries, entries_key, VSequence(<<>>))
        i == IndexOfKey(m, entries_key)
    IN IF m[i].v.t = "seq"
       THEN Ok(ChartYaml(data.api_version,
                         [m EXCEPT ![i].v.items = Push(@, ToValueChartEntry(new_entry))]))
       ELSE Err("Unexpected value type for entries")

\* update_yaml(file_path, constants, parameters) with the file found at
\* file_path and the clock reading taken by Utc::now()
update_yaml(f, constants, parameters, created) ==
    LET loaded == LoadIndex(f)
        merged == AppendEntry(loaded.val, constants,
                              NewEntry(constants, parameters, created))
    IN IF ~loaded.ok THEN Err(loaded.err)
       ELSE IF ~merged.ok THEN Err(merged.err)
       ELSE Ok(ToStringChartYaml(merged.val))

(***************************************************************************)
(* Index files an invocation may find at start.                            *)
(***************************************************************************)
\* the entry of tests::test_update_yaml_existing_file
InitialEntry ==
    [apiVersion |-> "v2", appVersion |-> "1.0.0", created |-> 0,
     description |-> "Initial Test Chart", digest |-> "def456",
     home |-> "https://example.com", icon |-> "https://example.com/icon.png",
     keywords |-> <<"test", "chart">>,
     maintainers |-> <<Maintainer("test@example.com", "Test Maintainer",
                                  "https://example.com")>>,
     name |-> "test-chart", sources |-> <<"https://github.com/test/chart">>,
     type |-> "application",
     urls |-> <<"https://example.com/test-chart-0.0.1.tgz">>,
     version |-> "0.0.1"]

\* a list element that is no complete entry
PartialEntry == [name |-> "legacy", version |-> "0.1.0"]

InitialFiles ==
    {MissingFile, BlankFile, GarbageFile, UnreadableFile,
     \* what `generate` writes: the default ChartYaml
     ToStringChartYaml(ChartYamlDefault),
     \* the file of test_update_yaml_existing_file
     Doc(VString("v1"),
         VMapping(<<KV(VString("test-chart"), VSequence(<<InitialEntry>>))>>), FALSE),
     \* several charts, a key that is no string, another apiVersion, extra keys
     Doc(VString("v2"),
         VMapping(<<KV(VString("zeta"), VSequence(<<PartialEntry>>)),
                    KV(VString("test-chart"), VSequence(<<PartialEntry, InitialEntry>>)),
                    KV(VNumber("7"), VString("seven"))>>), TRUE),
     \* no apiVersion key
     Doc(Absent, VMapping(<<KV(VString("other-chart"), VSequence(<<>>))>>), FALSE),
     \* apiVersion that is no string
     Doc(VSequence(<<>>), VMapping(<<>>), FALSE),
     \* no entries key
     Doc(VString("v1"), Absent, FALSE),
     \* entries as one flat list
     Doc(VString("v1"), VSequence(<<InitialEntry, PartialEntry>>), FALSE),
     \* values of the wrong shape under chart names
     Doc(VString("v1"),
         VMapping(<<KV(VString("test-chart"), VString("oops")),
                    KV(VString("other-chart"), VMapping(<<>>))>>), FALSE),
     \* one chart with a list, one with a null
     Doc(VString("v1"),
         VMapping(<<KV(VString("test-chart"), VSequence(<<>>)),
                    KV(VString("other-chart"), VNull)>>), FALSE)}

(***************************************************************************)
(* State.                                                                  *)
(***************************************************************************)
VARIABLES
    file,        \* what is at the index path
    now,         \* the wall clock (milliseconds)
    pc,          \* per invocation slot: position in main
    cfile,       \* per slot: the file at --constants
    pfile,       \* per slot: the file at --parameters
    constants,   \* per slot: Option<Constants> parsed so far
    parameters,  \* per slot: Option<Parameters> parsed so far
    updated_yaml,\* per slot: Option<String> returned by update_yaml
    error,       \* per slot: the error main returned, "" when none
    printed,     \* per slot: the confirmation line was printed
    \* history, not read by the program
    runs,        \* invocations started so far
    initial,     \* the index file at the beginning
    src,         \* per slot: Option of the index file update_yaml read
    created_at,  \* per slot: Option of the clock reading update_yaml took
    writes,      \* per slot: fs::write calls of the current invocation
    log,         \* entries written to the index file, in write order
    raced        \* an invocation started while another was running

vars == <<file, now, pc, cfile, pfile, constants, parameters, updated_yaml,
          error, printed, runs, initial, src, created_at, writes, log, raced>>

Running(p) == pc[p] \in {"constants", "parameters", "update", "write", "print"}

Init ==
    /\ file \in InitialFiles
    /\ initial = file
    /\ now = 0
    /\ pc = [p \in Procs |-> "idle"]
    /\ cfile = [p \in Procs |-> [kind |-> "missing", val |-> None]]
    /\ pfile = [p \in Procs |-> [kind |-> "missing", val |-> None]]
    /\ constants = [p \in Procs |-> None]
    /\ parameters = [p \in Procs |-> None]
    /\ updated_yaml = [p \in Procs |-> None]
    /\ error = [p \in Procs |-> ""]
    /\ printed = [p \in Procs |-> FALSE]
    /\ runs = 0
    /\ src = [p \in Procs |-> None]
    /\ created_at = [p \in Procs |-> None]
    /\ writes = [p \in Procs |-> 0]
    /\ log = <<>>
    /\ raced = FALSE

\* `update --file F --constants C --parameters P` is started; it takes the
\* first slot that holds no running invocation
Start(p, c, q) ==
    /\ ~Running(p)
    /\ \A o \in Procs : o < p => Running(o)
    /\ runs < MaxRuns
    /\ runs' = runs + 1
    /\ pc' = [pc EXCEPT ![p] = "constants"]
    /\ cfile' = [cfile EXCEPT ![p] = c]
    /\ pfile' = [pfile EXCEPT ![p] = q]
    /\ constants' = [constants EXCEPT ![p] = None]
    /\ parameters' = [parameters EXCEPT ![p] = None]
    /\ updated_yaml' = [updated_yaml EXCEPT ![p] = None]
    /\ error' = [error EXCEPT ![p] = ""]
    /\ printed' = [printed EXCEPT ![p] = FALSE]
    /\ src' = [src EXCEPT ![p] = None]
    /\ created_at' = [created_at EXCEPT ![p] = None]
    /\ writes' = [writes EXCEPT ![p] = 0]
    /\ raced' = (raced \/ \E o \in Procs \ {p} : Running(o))
    /\ UNCHANGED <<file, now, initial, log>>

\* let constants: Constants = serde_yaml::from_str(&fs::read_to_string(constants)?)?;
ReadConstants(p) ==
    /\ pc[p] = "constants"
    /\ LET r == ReadDescriptor(cfile[p])
       IN IF r.ok
          THEN /\ constants' = [constants EXCEPT ![p] = Some(r.val)]
               /\ pc' = [pc EXCEPT ![p] = "parameters"]
               /\ error' = error
          ELSE /\ constants' = constants
               /\ pc' = [pc EXCEPT ![p] = "failed"]
               /\ error' = [error EXCEPT ![p] = r.err]
    /\ UNCHANGED <<file, now, cfile, pfile, parameters, updated_yaml, printed,
                   runs, initial, src, created_at, writes, log, raced>>

\* let parameters: Parameters = serde_yaml::from_str(&fs::read_to_string(parameters)?)?;
ReadParameters(p) ==
    /\ pc[p] = "parameters"
    /\ LET r == ReadDescriptor(pfile[p])
       IN IF r.ok
          THEN /\ parameters' = [parameters EXCEPT ![p] = Some(r.val)]
               /\ pc' = [pc EXCEPT ![p] = "update"]
               /\ error' = error
          ELSE /\ parameters' = parameters
               /\ pc' = [pc EXCEPT ![p] = "failed"]
               /\ error' = [error EXCEPT ![p] = r.err]
    /\ UNCHANGED <<file, now, cfile, pfile, constants, updated_yaml, printed,
                   runs, initial, src, created_at, writes, log, raced>>

\* mutant: update_yaml writes its result to the index file itself
UpdateYamlWriting(p) ==
    /\ pc[p] = "update"
    /\ \E t \in now..Min(now + 1, MaxClock) :
         LET r == update_yaml(file, constants[p][1], parameters[p][1], t)
         IN /\ now' = t
            /\ src' = [src EXCEPT ![p] = Some(file)]
            /\ created_at' = [created_at EXCEPT ![p] = Some(t)]
            /\ IF r.ok
               THEN /\ updated_yaml' = [updated_yaml EXCEPT ![p] = Some(r.val)]
                    /\ pc' = [pc EXCEPT ![p] = "write"]
                    /\ error' = error
                    /\ file' = r.val
               ELSE /\ updated_yaml' = updated_yaml
                    /\ pc' = [pc EXCEPT ![p] = "failed"]
                    /\ error' = [error EXCEPT ![p] = r.err]
                    /\ file' = file
    /\ UNCHANGED <<cfile, pfile, constants, parameters, printed, runs,
                   initial, writes, log, raced>>

\* let updated_yaml = update_yaml(file.to_str().unwrap(), &constants, &parameters)?;
\* the clock may have advanced before Utc::now() reads it
UpdateYaml(p) ==
    /\ pc[p] = "update"
    /\ \E t \in now..Min(now + 1, MaxClock) :
         LET r == update_yaml(file, constants[p][1], parameters[p][1], t)
         IN /\ now' = t
            /\ src' = [src EXCEPT ![p] = Some(file)]
            /\ created_at' = [created_at EXCEPT ![p] = Some(t)]
            /\ IF r.ok
               THEN /\ updated_yaml' = [updated_yaml EXCEPT ![p] = Some(r.val)]
                    /\ pc' = [pc EXCEPT ![p] = "write"]
                    /\ error' = error
               ELSE /\ updated_yaml' = updated_yaml
                    /\ pc' = [pc EXCEPT ![p] = "failed"]
                    /\ error' = [error EXCEPT ![p] = r.err]
    /\ UNCHANGED <<file, cfile, pfile, constants, parameters, printed, runs,
                   initial, writes, log, raced>>

\* fs::write(file, updated_yaml)?;
WriteFile(p) ==
    /\ pc[p] = "write"
    /\ file' = updated_yaml[p][1]
    /\ writes' = [writes EXCEPT ![p] = @ + 1]
    /\ log' = Append(log, ToValueChartEntry(
                 NewEntry(constants[p][1], parameters[p][1], created_at[p][1])))
    /\ pc' = [pc EXCEPT ![p] = "print"]
    /\ UNCHANGED <<now, cfile, pfile, constants, parameters, updated_yaml, error,
                   printed, runs, initial, src, created_at, raced>>

\* println!("Added new entry to {}", file.display()); Ok(())
PrintConfirmation(p) ==
    /\ pc[p] = "print"
    /\ printed' = [printed EXCEPT ![p] = TRUE]
    /\ pc' = [pc EXCEPT ![p] = "done"]
    /\ UNCHANGED <<file, now, cfile, pfile, constants, parameters, updated_yaml,
                   error, runs, initial, src, created_at, writes, log, raced>>

Next ==
    \E p \in Procs :
        \/ \E c \in ConstantsFiles, q \in ParametersFiles : Start(p, c, q)
        \/ ReadConstants(p)
        \/ ReadParameters(p)
        \/ UpdateYaml(p)
        \/ WriteFile(p)
        \/ PrintConfirmation(p)

Spec == Init /\ [][Next]_vars

\* invocations one after the other: none starts while another is running
SeqNext ==
    \E p \in Procs :
        \/ /\ \A o \in Procs : ~Running(o)
           /\ \E c \in ConstantsFiles, q \in ParametersFiles : Start(p, c, q)
        \/ ReadConstants(p)
        \/ ReadParameters(p)
        \/ UpdateYaml(p)
        \/ WriteFile(p)
        \/ PrintConfirmation(p)

SeqSpec == Init /\ [][SeqNext]_vars

TypeOK ==
    /\ pc \in [Procs -> {"idle", "constants", "parameters", "update", "write",
                         "print", "done", "failed"}]
    /\ now \in 0..MaxClock
    /\ runs \in 0..MaxRuns

(***************************************************************************)
(* Vocabulary of the properties: what an invocation read, what it was      *)
(* given and what update_yaml returned to it.                              *)
(***************************************************************************)
Succeeded(p) == updated_yaml[p] # None
Read(p) == src[p][1]
Returned(p) == updated_yaml[p][1]
Cn(p) == constants[p][1]
Pm(p) == parameters[p][1]

ChartKey(n) == [t |-> "str", v |-> n, items |-> <<>>]

\* an index file of the schema the program expects
Parsable(f) ==
    /\ f.kind = "doc"
    /\ f.entries.t = "map"
    /\ f.api.t \in {"absent", "null", "str"}

\* the key/value pairs of the entries mapping of an index text
Pairs(f) == IF Parsable(f) THEN f.entries.items ELSE <<>>
KeysOf(f) == [i \in 1..Len(Pairs(f)) |-> Pairs(f)[i].k]
HasKey(f, key) == \E i \in 1..Len(Pairs(f)) : Pairs(f)[i].k = key
ValueAt(f, key) == Pairs(f)[CHOOSE i \in 1..Len(Pairs(f)) : Pairs(f)[i].k = key].v
HasList(f, n) == HasKey(f, ChartKey(n)) /\ ValueAt(f, ChartKey(n)).t = "seq"
ListAt(f, n) == IF HasList(f, n) THEN ValueAt(f, ChartKey(n)).items ELSE <<>>
Last(xs) == xs[Len(xs)]

\* the entry the merge rule prescribes for constants c, parameters q and
\* timestamp t
MergeResult(c, q, t) ==
    [apiVersion |-> c.api_version,
     appVersion |-> IF Len(q.app_version) = 1 THEN q.app_version[1] ELSE c.app_version,
     created |-> t, description |-> c.description, digest |-> q.digest,
     home |-> c.home, icon |-> c.icon, keywords |-> c.keywords,
     maintainers |-> c.maintainers, name |-> c.name, sources |-> c.sources,
     type |-> c.entry_type, urls |-> q.urls, version |-> q.version]

ChartNames == {"test-chart", "other-chart"}
LogFor(n) == SelectSeq(log, LAMBDA e : e.name = n)

(***************************************************************************)
(* C1: on an existing, parsable index whose list under constants.name has  *)
(* N entries, a successful update returns that list with N+1 entries, the  *)
(* first N unchanged and in order, the last one the new entry; and with    *)
(* invocations one after the other, the list of each chart name is always  *)
(* the initial list followed by the entries written for that name, in      *)
(* write order.                                                            *)
(***************************************************************************)
C1_AppendOne(p) ==
    (Succeeded(p) /\ Parsable(Read(p)))
    => LET old == ListAt(Read(p), Cn(p).name)
           new == ListAt(Returned(p), Cn(p).name)
       IN /\ HasList(Returned(p), Cn(p).name)
          /\ Len(new) = Len(old) + 1
          /\ SubSeq(new, 1, Len(old)) = old
          /\ Last(new) = MergeResult(Cn(p), Pm(p), created_at[p][1])

C1_AppendOnly ==
    /\ \A p \in Procs : C1_AppendOne(p)
    /\ \A n \in ChartNames : ListAt(file, n) = ListAt(initial, n) \o LogFor(n)

\* two updates of the same chart and version were written on top of an
\* existing list
C1_Witness ==
    /\ Len(log) = 2
    /\ log[1].name = log[2].name
    /\ log[1].version = log[2].version
    /\ ListAt(initial, log[1].name) # <<>>
    /\ Len(ListAt(file, log[1].name)) = Len(ListAt(initial, log[1].name)) + 2
    /\ \E p \in Procs : pc[p] = "done" /\ Parsable(Read(p))

(***************************************************************************)
(* C2: on a missing, empty or whitespace-only index, update returns an     *)
(* index with apiVersion "v1" and a single key, constants.name, holding a  *)
(* single entry whose fields come from constants and parameters.           *)
(***************************************************************************)
C2_FreshIndex ==
    \A p \in Procs :
        (Succeeded(p) /\ Read(p).kind \in {"missing", "blank"})
        => /\ Returned(p).kind = "doc"
           /\ Returned(p).api = [t |-> "str", v |-> "v1", items |-> <<>>]
           /\ Returned(p).entries.t = "map"
           /\ Len(Returned(p).entries.items) = 1
           /\ Returned(p).entries.items[1].k = ChartKey(Cn(p).name)
           /\ Returned(p).entries.items[1].v.t = "seq"
           /\ Len(Returned(p).entries.items[1].v.items) = 1
           /\ LET e == Returned(p).entries.items[1].v.items[1]
              IN /\ e.apiVersion = Cn(p).api_version
                 /\ e.description = Cn(p).description
                 /\ e.home = Cn(p).home
                 /\ e.icon = Cn(p).icon
                 /\ e.keywords = Cn(p).keywords
                 /\ e.maintainers = Cn(p).maintainers
                 /\ e.name = Cn(p).name
                 /\ e.sources = Cn(p).sources
                 /\ e.type = Cn(p).entry_type
                 /\ e.digest = Pm(p).digest
                 /\ e.version = Pm(p).version
                 /\ e.urls = Pm(p).urls

C2_Witness ==
    \E p \in Procs :
        /\ pc[p] = "done"
        /\ Read(p).kind \in {"missing", "blank"}
        /\ file = Returned(p)

(***************************************************************************)
(* C3: the appended entry's appVersion is parameters.appVersion when that  *)
(* is present, and constants.appVersion when it is absent.                 *)
(***************************************************************************)
C3_AppVersionFallback ==
    \A p \in Procs :
        Succeeded(p)
        => LET e == Last(ListAt(Returned(p), Cn(p).name))
           IN /\ HasList(Returned(p), Cn(p).name)
              /\ Pm(p).app_version # <<>> => e.appVersion = Pm(p).app_version[1]
              /\ Pm(p).app_version = <<>> => e.appVersion = Cn(p).app_version

C3_Witness ==
    /\ \E p \in Procs : /\ pc[p] = "done"
                        /\ Pm(p).app_version # <<>>
                        /\ Pm(p).app_version[1] # Cn(p).app_version
    /\ \E p \in Procs : pc[p] = "done" /\ Pm(p).app_version = <<>>

(***************************************************************************)
(* C4: a successful update changes only the list keyed by constants.name:  *)
(* every other key of the loaded index comes back with the same value at   *)
(* the same position, and the only key that may be added is                *)
(* constants.name, at the end.  Over any run, a key of the initial index   *)
(* that no update named still holds its initial value.                     *)
(***************************************************************************)
C4_FrameOne(p) ==
    Succeeded(p)
    => LET old == Pairs(Read(p))
           new == Pairs(Returned(p))
           key == ChartKey(Cn(p).name)
       IN /\ Parsable(Returned(p))
          /\ KeysOf(Returned(p)) =
                 IF HasKey(Read(p), key) THEN KeysOf(Read(p))
                 ELSE Append(KeysOf(Read(p)), key)
          /\ \A i \in 1..Len(old) : old[i].k # key => new[i] = old[i]

C4_Frame ==
    /\ \A p \in Procs : C4_FrameOne(p)
    /\ \A i \in 1..Len(Pairs(initial)) :
          LET kv == Pairs(initial)[i]
          IN (\A j \in 1..Len(log) : ChartKey(log[j].name) # kv.k)
             => /\ i <= Len(Pairs(file))
                /\ Pairs(file)[i] = kv
    /\ \A i \in 1..Len(Pairs(file)) :
          \/ i <= Len(Pairs(initial)) /\ Pairs(file)[i].k = Pairs(initial)[i].k
          \/ \E j \in 1..Len(log) : ChartKey(log[j].name) = Pairs(file)[i].k

\* an update of one chart was written to an index holding other keys too,
\* one of them after the updated key
C4_Witness ==
    \E p \in Procs :
        /\ pc[p] = "done"
        /\ Len(Pairs(Read(p))) >= 3
        /\ Pairs(Read(p))[2].k = ChartKey(Cn(p).name)
        /\ file = Returned(p)

(***************************************************************************)
(* C5 as stated: an index file that exists, is not blank and does not      *)
(* parse is replaced by an empty index, and update returns an index that   *)
(* holds exactly the new entry.                                            *)
(***************************************************************************)
Unparsable(f) == f.kind \in {"garbage", "doc"} /\ ~Parsable(f)

C5_FallbackToEmpty ==
    \A p \in Procs :
        (src[p] # None /\ Unparsable(Read(p)))
        => /\ Succeeded(p)
           /\ Returned(p).api = [t |-> "str", v |-> "v1", items |-> <<>>]
           /\ KeysOf(Returned(p)) = <<ChartKey(Cn(p).name)>>
           /\ ListAt(Returned(p), Cn(p).name)
                  = <<MergeResult(Cn(p), Pm(p), created_at[p][1])>>

(***************************************************************************)
(* C5, amended: an index file that exists, is not blank and does not parse *)
(* makes update fail with the parse error; nothing is returned, written or *)
(* printed.                                                                *)
(***************************************************************************)
C5_ParseFailureAborts ==
    \A p \in Procs :
        (src[p] # None /\ Unparsable(Read(p)))
        => /\ ~Succeeded(p)
           /\ pc[p] = "failed"
           /\ error[p] = "parse"
           /\ writes[p] = 0
           /\ ~printed[p]

C5_Witness ==
    \E p \in Procs : src[p] # None /\ Read(p).kind = "garbage" /\ pc[p] = "failed"

(***************************************************************************)
(* C6: when the loaded index holds under constants.name a value that is no *)
(* list, update fails with the structural-mismatch error, returns nothing, *)
(* and the wrong-shaped value stays in the file as it was.                 *)
(***************************************************************************)
C6_StructuralMismatch ==
    /\ \A p \in Procs :
          (/\ src[p] # None
           /\ HasKey(Read(p), ChartKey(Cn(p).name))
           /\ ~HasList(Read(p), Cn(p).name))
          => /\ ~Succeeded(p)
             /\ pc[p] = "failed"
             /\ error[p] = "Unexpected value type for entries"
             /\ writes[p] = 0
             /\ ~printed[p]
    /\ \A i \in 1..Len(Pairs(initial)) :
          Pairs(initial)[i].v.t # "seq"
          => i <= Len(Pairs(file)) /\ Pairs(file)[i] = Pairs(initial)[i]

C6_Witness ==
    /\ \E p \in Procs : /\ src[p] # None
                        /\ HasKey(Read(p), ChartKey(Cn(p).name))
                        /\ ValueAt(Read(p), ChartKey(Cn(p).name)).t = "str"
                        /\ pc[p] = "failed"
    /\ \E p \in Procs : /\ src[p] # None
                        /\ HasKey(Read(p), ChartKey(Cn(p).name))
                        /\ ValueAt(Read(p), ChartKey(Cn(p).name)).t = "map"
                        /\ pc[p] = "failed"

(***************************************************************************)
(* C7: the index file changes only by the write of an invocation that has  *)
(* parsed both descriptors and got a result from update_yaml, and it       *)
(* becomes that result; update_yaml itself leaves the file alone; an       *)
(* invocation writes at most once, a failed one never, and the             *)
(* confirmation is printed only after the write.                           *)
(***************************************************************************)
C7_WriteStep ==
    file' # file
    => \E p \in Procs :
          /\ pc[p] = "write" /\ pc'[p] = "print"
          /\ constants[p] # None /\ parameters[p] # None
          /\ updated_yaml[p] # None
          /\ file' = updated_yaml[p][1]
          /\ writes'[p] = 1

C7_Counts ==
    \A p \in Procs :
        /\ writes[p] <= 1
        /\ pc[p] = "failed" => (writes[p] = 0 /\ ~printed[p] /\ error[p] # "")
        /\ printed[p] => writes[p] = 1
        /\ pc[p] \in {"constants", "parameters", "update", "write"} => writes[p] = 0

C7_WriteOnceAfterSuccess == [][C7_WriteStep]_vars /\ []C7_Counts

\* an invocation failed in update_yaml on a file that a successful one had
\* written
C7_Witness ==
    /\ file # initial
    /\ \E p \in Procs : pc[p] = "failed" /\ src[p] = Some(file)

(***************************************************************************)
(* C8 as stated: the returned index always has a string apiVersion, the    *)
(* one of the loaded file when it has one and "v1" otherwise.              *)
(***************************************************************************)
C8_StringApiVersion ==
    \A p \in Procs :
        Succeeded(p)
        => /\ Returned(p).api.t = "str"
           /\ Returned(p).api.v =
                 IF Read(p).kind = "doc" /\ Read(p).api.t = "str"
                 THEN Read(p).api.v ELSE "v1"

(***************************************************************************)
(* C9 as stated: when entries of the index file is one flat list, update   *)
(* succeeds and returns that list with the new entry appended.             *)
(***************************************************************************)
C9_FlatListAppend ==
    \A p \in Procs :
        (src[p] # None /\ Read(p).kind = "doc" /\ Read(p).entries.t = "seq")
        => /\ Succeeded(p)
           /\ Returned(p).entries.t = "seq"
           /\ Returned(p).entries.items =
                 Append(Read(p).entries.items,
                        MergeResult(Cn(p), Pm(p), created_at[p][1]))

(***************************************************************************)
(* C10: as long as no invocation started while another was running, the    *)
(* file holds every entry written so far (initial list, then the written   *)
(* entries in order); in any case the entry written last is the last one   *)
(* of its list.  With overlapping invocations an entry can be lost         *)
(* although both printed their confirmation (C10_LostUpdate).              *)
(***************************************************************************)
C10_LastWriteWins ==
    /\ ~raced => \A n \in ChartNames :
                    Len(ListAt(file, n)) = Len(ListAt(initial, n)) + Len(LogFor(n))
    /\ ~raced => \A j \in 1..Len(log) :
                    \E i \in 1..Len(ListAt(file, log[j].name)) :
                        ListAt(file, log[j].name)[i] = log[j]
    /\ log # <<>> => /\ HasList(file, Last(log).name)
                     /\ Last(ListAt(file, Last(log).name)) = Last(log)

C10_LostUpdate ==
    /\ raced
    /\ \A p \in Procs : pc[p] = "done" /\ printed[p] /\ writes[p] = 1
    /\ Len(log) = 2
    /\ \E n \in ChartNames :
          Len(ListAt(file, n)) < Len(ListAt(initial, n)) + Len(LogFor(n))

====
